---- MODULE Spec2Model ----
(***************************************************************************)
(* Model of src/utils.ts: the safe file writer (openTemp, writeFileSafe)   *)
(* and the module counter.  One Node.js process runs several writeFileSafe *)
(* calls on a single-threaded event loop; every fs.promises operation is a *)
(* request that completes (or fails) later, at a step of its own, so the   *)
(* calls interleave at their filesystem operations.  A promise that the    *)
(* code neither awaits nor returns keeps running after the code moved on:  *)
(* the model keeps it as an operation in flight.                           *)
(***************************************************************************)
EXTENDS Integers, Sequences, FiniteSets, TLC

\* ---------------------------------------------------------------- bounds
MaxLen == 2        \* longest payload, in bytes
MaxStale == 1      \* scratch names 0..MaxStale-1 may be taken by files left by an earlier process with the same pid
MaxFaults == 1     \* filesystem faults injected in one run

\* the writeFileSafe calls the process makes, numbered in program order
Calls == {1, 2}
\* payloads are strings over one letter: contents differ by their length
Bytes == {"a"}
Dirs == {"proj"}
Names == {"f", "g"}
Paths == Dirs \X Names

RECURSIVE SeqsUpTo(_)
SeqsUpTo(n) ==
  IF n = 0 THEN {<<>>}
  ELSE LET S == SeqsUpTo(n - 1)
       IN S \cup {Append(s, b) : s \in {t \in S : Len(t) = n - 1}, b \in Bytes}

Contents == SeqsUpTo(MaxLen)

\* what a destination held before the process started, when it existed
OldContent == <<"o", "l", "d">>
\* what a scratch file left by an earlier process holds
StaleContent == <<"s">>

VARIABLES
  counter,          \* let counter = 0
  tempDirExists,    \* CLI_TEMP_DIR exists on disk
  scratch,          \* files of CLI_TEMP_DIR: counter value n of .<pid>.<n> -> content
  dirs,             \* destination directories that exist
  files,            \* destination files: path -> content
  pc,               \* per call: the filesystem operation in flight for its chain
  path,             \* per call: argument path
  data,             \* per call: argument data
  competitivePath,  \* per call: counter value of its current candidate path, -1 before the first
  result,           \* per call: state of the promise writeFileSafe returned
  chainValue,       \* per call: value of the promise chain built on fs.writeFile
  mkdirDest,        \* per call: the fs.mkdir(directory) request of its chain
  renameLog,        \* calls in the order their renames completed (history)
  failedAt,         \* per call: the step that failed, "none" if none (history)
  issued,           \* counter values handed out as scratch names (history)
  collided,         \* a scratch name was handed out twice (history)
  faults,           \* injected faults, <<call, operation>> (history)
  unhandled,        \* promise rejections nobody handles, <<call, operation>>
  initFiles,        \* files at process start (history)
  attempts,         \* per call: fs.open(..., 'wx') requests made for it (history)
  cleanups,         \* per call: times temp.cleanup was called (history)
  stale,            \* scratch names taken at process start (history)
  entry,            \* search path: <<directory, command>> -> kind of the file there
  probed,           \* per command: what the last cmdExists(command) returned
  prefix            \* what the last getVoltaPrefix() returned

vars == <<counter, tempDirExists, scratch, dirs, files, pc, path, data,
          competitivePath, result, chainValue, mkdirDest, renameLog, failedAt,
          issued, collided, faults, unhandled, initFiles, attempts, cleanups,
          stale, entry, probed, prefix>>

\* the state of the safe file writer, and of the executable probe
writerVars == <<counter, tempDirExists, scratch, dirs, files, pc, path, data,
                competitivePath, result, chainValue, mkdirDest, renameLog,
                failedAt, issued, collided, faults, unhandled, initFiles,
                attempts, cleanups, stale>>
probeVars == <<entry, probed, prefix>>

\* ------------------------------------------------------- pure helpers
\* dirname(path)
dirname(p) == p[1]

\* existsSync on a scratch path
existsSync(n) == n \in DOMAIN scratch

Put(f, k, v) == [x \in DOMAIN f \cup {k} |-> IF x = k THEN v ELSE f[x]]
Del(f, k) == [x \in DOMAIN f \ {k} |-> f[x]]

\* the process has died
crashed == <<0, "crash">> \in faults

CanInject == ~crashed /\ Cardinality(faults) < MaxFaults
Inject(c, op) == faults' = faults \cup {<<c, op>>}

InitWriter ==
  /\ counter = 0
  /\ \E S \in SUBSET (0..(MaxStale - 1)) :
       /\ scratch = [n \in S |-> StaleContent]
       /\ tempDirExists \in (IF S = {} THEN BOOLEAN ELSE {TRUE})
  /\ dirs \in SUBSET Dirs
  /\ \E P \in SUBSET {p \in Paths : dirname(p) \in dirs} :
       files = [p \in P |-> OldContent]
  /\ initFiles = files
  /\ pc = [c \in Calls |-> "idle"]
  /\ path = [c \in Calls |-> CHOOSE p \in Paths : TRUE]
  /\ data = [c \in Calls |-> <<>>]
  /\ competitivePath = [c \in Calls |-> -1]
  /\ result = [c \in Calls |-> "none"]
  /\ chainValue = [c \in Calls |-> "none"]
  /\ mkdirDest = [c \in Calls |-> "none"]
  /\ renameLog = <<>>
  /\ failedAt = [c \in Calls |-> "none"]
  /\ issued = {}
  /\ collided = FALSE
  /\ faults = {}
  /\ unhandled = {}
  /\ attempts = [c \in Calls |-> 0]
  /\ cleanups = [c \in Calls |-> 0]
  /\ stale = DOMAIN scratch

\* ------------------------------------------------------------ openTemp
\* counter++ : the value the next request will see
NextCounterStuck(n) == n
NextCounter(n) == n + 1

\* const competitivePath = join(CLI_TEMP_DIR, `.${process.pid}.${counter}`); counter++;
\* then fs.open(competitivePath, 'wx') is requested.  No await in between.
Candidate(c) ==
  /\ competitivePath' = [competitivePath EXCEPT ![c] = counter]
  /\ counter' = NextCounter(counter)
  /\ issued' = issued \cup {counter}
  /\ collided' = (collided \/ counter \in issued)
  /\ attempts' = [attempts EXCEPT ![c] = @ + 1]
  /\ pc' = [pc EXCEPT ![c] = "opening"]

\* the synchronous start of openTemp(): existsSync(CLI_TEMP_DIR), then either
\* await fs.mkdir(...) or straight on to the candidate path
openTemp(c) ==
  IF ~tempDirExists
    THEN /\ pc' = [pc EXCEPT ![c] = "mkTemp"]
         /\ UNCHANGED <<counter, competitivePath, issued, collided, attempts>>
    ELSE Candidate(c)

\* the value writeFileSafe returns once openTemp() has settled; temp is
\* whether a scratch file was acquired
ReturnValueOfChain(temp) == IF temp THEN "true" ELSE "false"
ReturnValue(temp) == "false"

\* ------------------------------------------------------------- actions
\* writeFileSafe(p, d) is called: runs up to the first await.  Calls are
\* numbered in the order the program makes them.
Start(c) ==
  /\ ~crashed
  /\ pc[c] = "idle"
  /\ \A b \in Calls : b < c => pc[b] # "idle"
  /\ \E p \in Paths, d \in Contents :
       /\ path' = [path EXCEPT ![c] = p]
       /\ data' = [data EXCEPT ![c] = d]
  /\ result' = [result EXCEPT ![c] = "pending"]
  /\ openTemp(c)
  /\ UNCHANGED <<tempDirExists, scratch, dirs, files, chainValue, mkdirDest,
                 renameLog, failedAt, faults, unhandled, initFiles>>
  /\ UNCHANGED <<cleanups, stale, probeVars>>

\* await fs.mkdir(CLI_TEMP_DIR, { recursive: true }) resolves
MkTempOk(c) ==
  /\ ~crashed
  /\ pc[c] = "mkTemp"
  /\ tempDirExists' = TRUE
  /\ Candidate(c)
  /\ UNCHANGED <<scratch, dirs, files, path, data, result, chainValue, mkdirDest,
                 renameLog, failedAt, faults, unhandled, initFiles>>
  /\ UNCHANGED <<cleanups, stale, probeVars>>

\* await fs.mkdir(CLI_TEMP_DIR, ...) rejects: nothing in openTemp or
\* writeFileSafe catches it, so the promise of writeFileSafe rejects
MkTempFail(c) ==
  /\ CanInject
  /\ pc[c] = "mkTemp"
  /\ Inject(c, "mkTemp")
  /\ pc' = [pc EXCEPT ![c] = "done"]
  /\ result' = [result EXCEPT ![c] = "rejected"]
  /\ failedAt' = [failedAt EXCEPT ![c] = "mkTemp"]
  /\ UNCHANGED <<counter, tempDirExists, scratch, dirs, files, path, data,
                 competitivePath, chainValue, mkdirDest, renameLog, issued,
                 collided, unhandled, initFiles>>
  /\ UNCHANGED <<attempts, cleanups, stale, probeVars>>

\* fs.open(competitivePath, 'wx') resolves: the file is created empty;
\* writeFileSafe resumes with temp, requests fs.writeFile(temp.path, data),
\* does not wait for it and returns
OpenOk(c) ==
  /\ ~crashed
  /\ pc[c] = "opening"
  /\ tempDirExists
  /\ ~existsSync(competitivePath[c])
  /\ scratch' = Put(scratch, competitivePath[c], <<>>)
  /\ pc' = [pc EXCEPT ![c] = "writing"]
  /\ chainValue' = [chainValue EXCEPT ![c] = "pending"]
  /\ result' = [result EXCEPT ![c] = ReturnValue(TRUE)]
  /\ UNCHANGED <<counter, tempDirExists, dirs, files, path, data, competitivePath,
                 mkdirDest, renameLog, failedAt, issued, collided, faults,
                 unhandled, initFiles>>
  /\ UNCHANGED <<attempts, cleanups, stale, probeVars>>

\* if (error && error.code === 'EEXIST')
AnyErrorRetries(code) == TRUE
IsEEXIST(code) == code = "EEXIST"

\* the other errors fs.open can reject with
OtherErrors == {"EACCES", "ENOSPC"}

\* fs.open(..., 'wx') rejects with EEXIST: return openTemp()
OpenExist(c) ==
  /\ ~crashed
  /\ pc[c] = "opening"
  /\ existsSync(competitivePath[c])
  /\ IsEEXIST("EEXIST")
  /\ openTemp(c)
  /\ UNCHANGED <<tempDirExists, scratch, dirs, files, path, data, result,
                 chainValue, mkdirDest, renameLog, failedAt, faults, unhandled,
                 initFiles>>
  /\ UNCHANGED <<cleanups, stale, probeVars>>

\* fs.open(..., 'wx') rejects with another error: openTemp resolves with
\* undefined, writeFileSafe skips the if and returns
OpenFail(c) ==
  /\ CanInject
  /\ pc[c] = "opening"
  /\ Inject(c, "open")
  /\ failedAt' = [failedAt EXCEPT ![c] = "open"]
  /\ \E code \in OtherErrors :
       IF IsEEXIST(code)
         THEN /\ openTemp(c)
              /\ UNCHANGED result
         ELSE /\ pc' = [pc EXCEPT ![c] = "done"]
              /\ result' = [result EXCEPT ![c] = ReturnValue(FALSE)]
              /\ UNCHANGED <<counter, competitivePath, issued, collided, attempts>>
  /\ UNCHANGED <<tempDirExists, scratch, dirs, files, path, data, chainValue,
                 mkdirDest, renameLog, unhandled, initFiles>>
  /\ UNCHANGED <<cleanups, stale, probeVars>>

\* --------------------------------------------------------- writeFileSafe
\* fs.writeFile(temp.path, data) resolves when the whole payload is in the file
WriteResolvedEarly(c) == TRUE
WriteResolved(c) == scratch[competitivePath[c]] = data[c]

\* where the chain goes when fs.writeFile rejects: the .then callback is
\* skipped, .catch(() => false) settles the chain, .finally(temp.cleanup)
\* calls cleanup, which requests fd.close()
WriteRejectedRenames == "renaming"
WriteRejectedNext == "closing"

\* .finally(temp.cleanup): cleanup is called however the chain settled, and
\* requests fd.close()
CleanupOnlyOnSuccess(settled) == settled = "true"
FinallyCallsCleanup(settled) == TRUE

Finally(c, settled) ==
  IF FinallyCallsCleanup(settled)
    THEN /\ cleanups' = [cleanups EXCEPT ![c] = @ + 1]
         /\ pc' = [pc EXCEPT ![c] = "closing"]
    ELSE /\ pc' = [pc EXCEPT ![c] = "done"]
         /\ UNCHANGED cleanups

\* the path cleanup checks and unlinks: the competitivePath of its own
\* openTemp call (a const captured by the closure)
LatestCandidate(c) == counter - 1
cleanupPath(c) == competitivePath[c]

\* fs.rename(temp.path, path): what the destination holds afterwards
RenameKeepsExisting(fs, p, content) == IF p \in DOMAIN fs THEN fs ELSE Put(fs, p, content)
rename(fs, p, content) == Put(fs, p, content)

\* fs.writeFile stores the next part of the payload
WriteChunk(c) ==
  /\ ~crashed
  /\ pc[c] = "writing"
  /\ existsSync(competitivePath[c])
  /\ Len(scratch[competitivePath[c]]) < Len(data[c])
  /\ scratch' = [scratch EXCEPT ![competitivePath[c]] =
                   Append(@, data[c][Len(@) + 1])]
  /\ UNCHANGED <<counter, tempDirExists, dirs, files, pc, path, data,
                 competitivePath, result, chainValue, mkdirDest, renameLog,
                 failedAt, issued, collided, faults, unhandled, initFiles>>
  /\ UNCHANGED <<attempts, cleanups, stale, probeVars>>

\* fs.writeFile resolves; the .then callback runs: dirname, existsSync,
\* fs.mkdir(directory) requested and not awaited, fs.rename requested
WriteDone(c) ==
  /\ ~crashed
  /\ pc[c] = "writing"
  /\ existsSync(competitivePath[c])
  /\ WriteResolved(c)
  /\ mkdirDest' = [mkdirDest EXCEPT ![c] =
                     IF dirname(path[c]) \notin dirs THEN "pending" ELSE @]
  /\ pc' = [pc EXCEPT ![c] = "renaming"]
  /\ UNCHANGED <<counter, tempDirExists, scratch, dirs, files, path, data,
                 competitivePath, result, chainValue, renameLog, failedAt,
                 issued, collided, faults, unhandled, initFiles>>
  /\ UNCHANGED <<attempts, cleanups, stale, probeVars>>

\* fs.writeFile rejects, with whatever part of the payload it had stored
WriteFail(c) ==
  /\ CanInject
  /\ pc[c] = "writing"
  /\ Inject(c, "write")
  /\ failedAt' = [failedAt EXCEPT ![c] = "write"]
  /\ chainValue' = [chainValue EXCEPT ![c] = "false"]
  /\ IF WriteRejectedNext = "closing"
       THEN Finally(c, "false")
       ELSE pc' = [pc EXCEPT ![c] = WriteRejectedNext] /\ UNCHANGED cleanups
  /\ UNCHANGED <<counter, tempDirExists, scratch, dirs, files, path, data,
                 competitivePath, result, mkdirDest, renameLog, issued,
                 collided, unhandled, initFiles>>
  /\ UNCHANGED <<attempts, stale, probeVars>>

\* the floating fs.mkdir(directory, { recursive: true }) completes
MkdirDestOk(c) ==
  /\ ~crashed
  /\ mkdirDest[c] = "pending"
  /\ dirs' = dirs \cup {dirname(path[c])}
  /\ mkdirDest' = [mkdirDest EXCEPT ![c] = "ok"]
  /\ UNCHANGED <<counter, tempDirExists, scratch, files, pc, path, data,
                 competitivePath, result, chainValue, renameLog, failedAt,
                 issued, collided, faults, unhandled, initFiles>>
  /\ UNCHANGED <<attempts, cleanups, stale, probeVars>>

\* the floating fs.mkdir(directory, ...) rejects: no handler is attached
MkdirDestFail(c) ==
  /\ CanInject
  /\ mkdirDest[c] = "pending"
  /\ Inject(c, "mkdirDest")
  /\ mkdirDest' = [mkdirDest EXCEPT ![c] = "failed"]
  /\ unhandled' = unhandled \cup {<<c, "mkdirDest">>}
  /\ UNCHANGED <<counter, tempDirExists, scratch, dirs, files, pc, path, data,
                 competitivePath, result, chainValue, renameLog, failedAt,
                 issued, collided, initFiles>>
  /\ UNCHANGED <<attempts, cleanups, stale, probeVars>>

\* fs.rename resolves: the scratch file becomes the destination in one step;
\* .then(() => true), then .finally(temp.cleanup) requests fd.close()
RenameOk(c) ==
  /\ ~crashed
  /\ pc[c] = "renaming"
  /\ existsSync(competitivePath[c])
  /\ dirname(path[c]) \in dirs
  /\ files' = rename(files, path[c], scratch[competitivePath[c]])
  /\ scratch' = Del(scratch, competitivePath[c])
  /\ renameLog' = Append(renameLog, c)
  /\ chainValue' = [chainValue EXCEPT ![c] = "true"]
  /\ Finally(c, "true")
  /\ UNCHANGED <<counter, tempDirExists, dirs, path, data, competitivePath,
                 result, mkdirDest, failedAt, issued, collided, faults,
                 unhandled, initFiles>>
  /\ UNCHANGED <<attempts, stale, probeVars>>

\* fs.rename rejects with ENOENT: the destination directory does not exist
\* (yet); .catch(() => false), then cleanup
RenameNoDir(c) ==
  /\ ~crashed
  /\ pc[c] = "renaming"
  /\ dirname(path[c]) \notin dirs
  /\ failedAt' = [failedAt EXCEPT ![c] = "rename"]
  /\ chainValue' = [chainValue EXCEPT ![c] = "false"]
  /\ Finally(c, "false")
  /\ UNCHANGED <<counter, tempDirExists, scratch, dirs, files, path, data,
                 competitivePath, result, mkdirDest, renameLog, issued,
                 collided, faults, unhandled, initFiles>>
  /\ UNCHANGED <<attempts, stale, probeVars>>

\* fs.rename rejects for another reason; the destination is untouched
RenameFail(c) ==
  /\ CanInject
  /\ pc[c] = "renaming"
  /\ Inject(c, "rename")
  /\ failedAt' = [failedAt EXCEPT ![c] = "rename"]
  /\ chainValue' = [chainValue EXCEPT ![c] = "false"]
  /\ Finally(c, "false")
  /\ UNCHANGED <<counter, tempDirExists, scratch, dirs, files, path, data,
                 competitivePath, result, mkdirDest, renameLog, issued,
                 collided, unhandled, initFiles>>
  /\ UNCHANGED <<attempts, stale, probeVars>>

\* --------------------------------------------------------------- cleanup
\* fd.close() resolves; its .then callback: if existsSync(competitivePath),
\* fs.unlink(competitivePath) is requested
CloseOk(c) ==
  /\ ~crashed
  /\ pc[c] = "closing"
  /\ pc' = [pc EXCEPT ![c] =
              IF existsSync(cleanupPath(c)) THEN "unlinking" ELSE "done"]
  /\ UNCHANGED <<counter, tempDirExists, scratch, dirs, files, path, data,
                 competitivePath, result, chainValue, mkdirDest, renameLog,
                 failedAt, issued, collided, faults, unhandled, initFiles>>
  /\ UNCHANGED <<attempts, cleanups, stale, probeVars>>

\* fd.close() rejects: the .then callback is skipped and nothing handles it
CloseFail(c) ==
  /\ CanInject
  /\ pc[c] = "closing"
  /\ Inject(c, "close")
  /\ unhandled' = unhandled \cup {<<c, "close">>}
  /\ pc' = [pc EXCEPT ![c] = "done"]
  /\ UNCHANGED <<counter, tempDirExists, scratch, dirs, files, path, data,
                 competitivePath, result, chainValue, mkdirDest, renameLog,
                 failedAt, issued, collided, initFiles>>
  /\ UNCHANGED <<attempts, cleanups, stale, probeVars>>

\* fs.unlink(competitivePath) resolves
UnlinkOk(c) ==
  /\ ~crashed
  /\ pc[c] = "unlinking"
  /\ existsSync(cleanupPath(c))
  /\ scratch' = Del(scratch, cleanupPath(c))
  /\ pc' = [pc EXCEPT ![c] = "done"]
  /\ UNCHANGED <<counter, tempDirExists, dirs, files, path, data,
                 competitivePath, result, chainValue, mkdirDest, renameLog,
                 failedAt, issued, collided, faults, unhandled, initFiles>>
  /\ UNCHANGED <<attempts, cleanups, stale, probeVars>>

\* fs.unlink(competitivePath) rejects: no handler is attached
UnlinkFail(c) ==
  /\ CanInject
  /\ pc[c] = "unlinking"
  /\ Inject(c, "unlink")
  /\ unhandled' = unhandled \cup {<<c, "unlink">>}
  /\ pc' = [pc EXCEPT ![c] = "done"]
  /\ UNCHANGED <<counter, tempDirExists, scratch, dirs, files, path, data,
                 competitivePath, result, chainValue, mkdirDest, renameLog,
                 failedAt, issued, collided, initFiles>>
  /\ UNCHANGED <<attempts, cleanups, stale, probeVars>>

\* the process dies between two steps; the filesystem stays as it is
Crash ==
  /\ CanInject
  /\ \E c \in Calls : pc[c] \notin {"idle", "done"}
  /\ Inject(0, "crash")
  /\ UNCHANGED <<counter, tempDirExists, scratch, dirs, files, pc, path, data,
                 competitivePath, result, chainValue, mkdirDest, renameLog,
                 failedAt, issued, collided, unhandled, initFiles>>
  /\ UNCHANGED <<attempts, cleanups, stale, probeVars>>

\* ------------------------------------------------------ executable probe
\* command names asked for, and the directories of process.env.PATH in order
Commands == {"volta", "node"}
PathDirs == <<"bin1", "bin2">>
PathEntries == {<<PathDirs[i], cmd>> : i \in DOMAIN PathDirs, cmd \in Commands}

\* what is at <directory>/<command>: nothing, an executable file, a file that
\* is not executable, or something whose stat fails (EACCES, ELOOP, ...)
Kinds == {"none", "exec", "plain", "error"}

\* values of which.sync: a path <<directory, command>>, null, or a throw
Null == <<>>
Undefined == <<"undefined">>
Thrown == <<"throw">>

\* isexe as which calls it, with ignoreErrors: a failing stat counts as no
isexeSync(d, cmd) == entry[<<d, cmd>>] = "exec"

\* { nothrow: true }
NoThrow == TRUE

\* which.sync(cmd, { nothrow }): first directory of the search path that
\* holds an executable of that name; null when none does and nothrow is set
RECURSIVE whichFrom(_, _)
whichFrom(i, cmd) ==
  IF i > Len(PathDirs)
    THEN IF NoThrow THEN Null ELSE Thrown
    ELSE IF isexeSync(PathDirs[i], cmd)
           THEN <<PathDirs[i], cmd>>
           ELSE whichFrom(i + 1, cmd)

whichSync(cmd) == whichFrom(1, cmd)

\* return which.sync(cmd, { nothrow: true }) !== null
cmdExistsNotUndefined(cmd) ==
  IF whichSync(cmd) = Thrown THEN "threw"
  ELSE IF whichSync(cmd) # Undefined THEN "true" ELSE "false"
cmdExists(cmd) ==
  IF whichSync(cmd) = Thrown THEN "threw"
  ELSE IF whichSync(cmd) # Null THEN "true" ELSE "false"

VOLTA_PREFIX == "volta run"

\* return hasVoltaCommand ? VOLTA_PREFIX : ''
getVoltaPrefixSwapped ==
  IF cmdExists("volta") = "threw" THEN "threw"
  ELSE IF cmdExists("volta") = "true" THEN "" ELSE VOLTA_PREFIX
getVoltaPrefix ==
  IF cmdExists("volta") = "threw" THEN "threw"
  ELSE IF cmdExists("volta") = "true" THEN VOLTA_PREFIX ELSE ""

\* a caller evaluates cmdExists(cmd)
CmdExists(cmd) ==
  /\ probed' = [probed EXCEPT ![cmd] = cmdExists(cmd)]
  /\ UNCHANGED <<writerVars, entry, prefix>>

\* a caller evaluates getVoltaPrefix()
GetVoltaPrefix ==
  /\ prefix' = getVoltaPrefix
  /\ UNCHANGED <<writerVars, entry, probed>>

\* no probe has been made; in Spec nothing is on the search path
ProbeIdle ==
  /\ probed = [cmd \in Commands |-> "none"]
  /\ prefix = "none"

Init ==
  /\ InitWriter
  /\ entry = [e \in PathEntries |-> "none"]
  /\ ProbeIdle

InitProbe ==
  /\ InitWriter
  /\ entry \in [PathEntries -> Kinds]
  /\ ProbeIdle

NextProbe ==
  \/ \E cmd \in Commands : CmdExists(cmd)
  \/ GetVoltaPrefix

\* the probe on its own: the writer makes no call
SpecProbe == InitProbe /\ [][NextProbe]_vars

Next ==
  \/ \E c \in Calls : Start(c)
  \/ \E c \in Calls : MkTempOk(c)
  \/ \E c \in Calls : MkTempFail(c)
  \/ \E c \in Calls : OpenOk(c)
  \/ \E c \in Calls : OpenExist(c)
  \/ \E c \in Calls : OpenFail(c)
  \/ \E c \in Calls : WriteChunk(c)
  \/ \E c \in Calls : WriteDone(c)
  \/ \E c \in Calls : WriteFail(c)
  \/ \E c \in Calls : MkdirDestOk(c)
  \/ \E c \in Calls : MkdirDestFail(c)
  \/ \E c \in Calls : RenameOk(c)
  \/ \E c \in Calls : RenameNoDir(c)
  \/ \E c \in Calls : RenameFail(c)
  \/ \E c \in Calls : CloseOk(c)
  \/ \E c \in Calls : CloseFail(c)
  \/ \E c \in Calls : UnlinkOk(c)
  \/ \E c \in Calls : UnlinkFail(c)
  \/ Crash

Spec == Init /\ [][Next]_vars

\* a caller that waits for each call before it makes the next one:
\* await writeFileSafe(...); await writeFileSafe(...)
StartAwaited(c) ==
  /\ \A b \in Calls : b < c => result[b] \in {"true", "false", "rejected"}
  /\ Start(c)

NextAwaited ==
  \/ \E c \in Calls : StartAwaited(c)
  \/ \E c \in Calls : MkTempOk(c)
  \/ \E c \in Calls : MkTempFail(c)
  \/ \E c \in Calls : OpenOk(c)
  \/ \E c \in Calls : OpenExist(c)
  \/ \E c \in Calls : OpenFail(c)
  \/ \E c \in Calls : WriteChunk(c)
  \/ \E c \in Calls : WriteDone(c)
  \/ \E c \in Calls : WriteFail(c)
  \/ \E c \in Calls : MkdirDestOk(c)
  \/ \E c \in Calls : MkdirDestFail(c)
  \/ \E c \in Calls : RenameOk(c)
  \/ \E c \in Calls : RenameNoDir(c)
  \/ \E c \in Calls : RenameFail(c)
  \/ \E c \in Calls : CloseOk(c)
  \/ \E c \in Calls : CloseFail(c)
  \/ \E c \in Calls : UnlinkOk(c)
  \/ \E c \in Calls : UnlinkFail(c)
  \/ Crash

SpecAwaited == Init /\ [][NextAwaited]_vars

TypeOK ==
  /\ counter \in Nat
  /\ tempDirExists \in BOOLEAN
  /\ DOMAIN scratch \subseteq Nat
  /\ dirs \subseteq Dirs
  /\ DOMAIN files \subseteq Paths
  /\ pc \in [Calls -> {"idle", "mkTemp", "opening", "writing", "renaming",
                       "closing", "unlinking", "done"}]
  /\ result \in [Calls -> {"none", "pending", "false", "true", "rejected"}]
  /\ chainValue \in [Calls -> {"none", "pending", "false", "true"}]
  /\ mkdirDest \in [Calls -> {"none", "pending", "ok", "failed"}]

\* ------------------------------------------------------ derived notions
Range(s) == {s[i] : i \in 1..Len(s)}

\* the call's rename onto its destination has completed
Renamed(c) == c \in Range(renameLog)

\* writeFileSafe has returned to its caller
Returned(c) == result[c] \in {"true", "false"}

\* openTemp gave the call a scratch file
Acquired(c) == chainValue[c] # "none"

Started(c) == pc[c] # "idle"

\* the call is the only one that was given its destination
SoleWriter(c) == \A b \in Calls \ {c} : Started(b) => path[b] # path[c]

\* the destination of c is as it was when the process started
DestAsAtStart(c) ==
  IF path[c] \in DOMAIN initFiles
    THEN path[c] \in DOMAIN files /\ files[path[c]] = initFiles[path[c]]
    ELSE path[c] \notin DOMAIN files

\* position of the last rename onto p in renameLog, 0 if none
LastRename(p) ==
  LET I == {i \in 1..Len(renameLog) : path[renameLog[i]] = p}
  IN IF I = {} THEN 0 ELSE CHOOSE i \in I : \A j \in I : j <= i

\* ---------------------------------------------------------------- claims
\* C1: in every reachable state, with concurrent calls, faults and a crash at
\* any step, each destination file that exists holds either what it held
\* when the process started or the complete payload of a call made for that
\* path; never a prefix of a payload.
C1_DestinationNeverPartial ==
  \A p \in DOMAIN files :
    \/ (p \in DOMAIN initFiles /\ files[p] = initFiles[p])
    \/ \E c \in Calls : Started(c) /\ path[c] = p /\ files[p] = data[c]

\* C1 witness: the process crashed while one call had stored a proper,
\* non-empty prefix of its payload in its scratch file and the other call
\* had already published its payload.
C1_Witness ==
  /\ crashed
  /\ \E c \in Calls, b \in Calls :
       /\ pc[c] = "writing"
       /\ existsSync(competitivePath[c])
       /\ Len(scratch[competitivePath[c]]) > 0
       /\ Len(scratch[competitivePath[c]]) < Len(data[c])
       /\ Renamed(b)
       /\ files[path[b]] = data[b]

\* C2: when scratch acquisition, payload write, destination-directory
\* creation and rename have all succeeded, writeFileSafe has returned true.
C2_SuccessReturnsTrue ==
  \A c \in Calls :
    (Renamed(c) /\ mkdirDest[c] # "failed" /\ faults = {}) => result[c] = "true"

C4_ReadBackAfterReturn ==
  \A c \in Calls :
    (Returned(c) /\ faults = {} /\ SoleWriter(c) /\ path[c] \notin DOMAIN initFiles)
      => (path[c] \in DOMAIN files /\ files[path[c]] = data[c])

\* C5: with no injected fault, the rename of a call never fails: the parent
\* directory of the destination exists when the rename is carried out.
C5_RenameNeverFailsOnMissingDir ==
  \A c \in Calls : faults = {} => failedAt[c] # "rename"

\* C6: no failure of a filesystem step makes the promise of writeFileSafe
\* reject.
C6_NeverRejects ==
  \A c \in Calls : result[c] # "rejected"

\* C7: when a call has returned, and neither close nor unlink failed, the
\* scratch file it created is no longer in the scratch directory.
C7_NoScratchLeftAtReturn ==
  \A c \in Calls :
    (Returned(c) /\ Acquired(c) /\ faults \cap ({c} \X {"close", "unlink"}) = {}
       /\ ~crashed)
      => ~existsSync(competitivePath[c])

\* C8: a call whose scratch acquisition, payload write or rename failed never
\* replaces its destination; when no other call writes there, the
\* destination is as it was at the start (same content, or still absent).
C8_FailedCallLeavesDestination ==
  \A c \in Calls :
    failedAt[c] # "none" =>
      /\ ~Renamed(c)
      /\ SoleWriter(c) => DestAsAtStart(c)

\* C8 witness: a call with a non-empty payload for an existing destination
\* failed at its rename, finished, and the old content is still there.
C8_Witness ==
  \E c \in Calls :
    /\ failedAt[c] = "rename"
    /\ pc[c] = "done"
    /\ data[c] # <<>>
    /\ path[c] \in DOMAIN initFiles
    /\ files[path[c]] = OldContent

\* C9: no two scratch-name requests of openTemp, retries included, get the
\* same counter value; every value handed out is below the counter.
C9_ScratchNamesUnique ==
  /\ ~collided
  /\ \A n \in issued : n < counter
  /\ \A c \in Calls, b \in Calls :
       (c # b /\ competitivePath[c] # -1 /\ competitivePath[b] # -1)
         => competitivePath[c] # competitivePath[b]

\* C9 witness: both calls are waiting for their exclusive create at the same
\* time and one of them got there by a retry after EEXIST.
C9_Witness ==
  /\ pc[1] = "opening"
  /\ pc[2] = "opening"
  /\ Cardinality(issued) = 3
  /\ competitivePath[1] > competitivePath[2]

\* C10: when two calls target the same destination and both renames
\* succeeded, the destination holds the complete payload of the call whose
\* rename completed last.
C10_LastRenameWins ==
  \A c \in Calls, b \in Calls :
    (c # b /\ Renamed(c) /\ Renamed(b) /\ path[c] = path[b])
      => /\ path[c] \in DOMAIN files
         /\ files[path[c]] = data[renameLog[LastRename(path[c])]]

\* C10 witness: call 1 started first, call 2's rename completed first and
\* call 1's last, with different payloads for one destination.
C10_Witness ==
  /\ renameLog = <<2, 1>>
  /\ path[1] = path[2]
  /\ data[1] # data[2]
  /\ files[path[1]] = data[1]
  /\ pc[1] = "done"
  /\ pc[2] = "done"

\* an executable of that name is in some directory of the search path
OnSearchPath(cmd) ==
  \E i \in DOMAIN PathDirs : entry[<<PathDirs[i], cmd>>] = "exec"

\* the exclusive creates the process has requested so far
RECURSIVE SumAttempts(_)
SumAttempts(S) ==
  IF S = {} THEN 0
  ELSE LET c == CHOOSE x \in S : TRUE IN attempts[c] + SumAttempts(S \ {c})

\* neither fd.close() nor fs.unlink() of the call's cleanup failed
CleanupUnfaulted(c) == faults \cap ({c} \X {"close", "unlink"}) = {}

\* C11: cmdExists(name) returns true when an executable of that name is on
\* the search path and false otherwise, also when a lookup on the way fails
\* (a stat error); it never throws.
C11_CmdExistsFindsExecutable ==
  \A cmd \in Commands :
    probed[cmd] # "none" =>
      probed[cmd] = (IF OnSearchPath(cmd) THEN "true" ELSE "false")

\* C11 witness: one command was found in the second directory although the
\* lookup in the first failed; the other was reported absent although a
\* lookup failed and a non-executable file of that name exists.
C11_Witness ==
  /\ probed["node"] = "true"
  /\ entry[<<"bin1", "node">>] = "error"
  /\ entry[<<"bin2", "node">>] = "exec"
  /\ probed["volta"] = "false"
  /\ entry[<<"bin1", "volta">>] = "error"
  /\ entry[<<"bin2", "volta">>] = "plain"

\* C12: getVoltaPrefix returns 'volta run' exactly when cmdExists('volta') is
\* true and the empty string otherwise, and a call changes nothing else.
C12_VoltaPrefix ==
  /\ [](prefix # "none" =>
          prefix = (IF cmdExists("volta") = "true" THEN "volta run" ELSE ""))
  /\ [][prefix' # prefix => UNCHANGED <<writerVars, entry, probed>>]_vars

\* C12 witness: the prefix was returned for a volta found in the second
\* directory of the search path only.
C12_Witness ==
  /\ prefix = "volta run"
  /\ entry[<<"bin1", "volta">>] = "plain"
  /\ entry[<<"bin2", "volta">>] = "exec"
  /\ probed["volta"] = "true"

\* C13: after a collision (EEXIST) and a later successful attempt, with no
\* fault, the finished call has published its payload, its result is true,
\* and every attempt has consumed exactly one counter value.
C13_RetryIsTransparent ==
  \A c \in Calls :
    (attempts[c] >= 2 /\ Renamed(c) /\ pc[c] = "done" /\ faults = {})
      => /\ result[c] = "true"
         /\ SoleWriter(c) => files[path[c]] = data[c]
         /\ counter = SumAttempts(Calls)

\* C14: when the exclusive create fails with an error other than EEXIST the
\* call makes no further attempt and is finished with result false: no
\* scratch file, no payload write, no directory creation, no rename, no
\* cleanup.
C14_OtherErrorAborts ==
  \A c \in Calls :
    failedAt[c] = "open" =>
      /\ pc[c] = "done"
      /\ result[c] = "false"
      /\ ~Acquired(c)
      /\ mkdirDest[c] = "none"
      /\ ~Renamed(c)
      /\ cleanups[c] = 0
      /\ \A n \in DOMAIN scratch : n = competitivePath[c] => n \in stale

\* C14 witness: the exclusive create failed on the retry that followed a
\* collision, while the other call went through.
C14_Witness ==
  \E c \in Calls, b \in Calls :
    /\ failedAt[c] = "open"
    /\ attempts[c] = 2
    /\ Renamed(b)
    /\ pc[b] = "done"

\* C15: cleanup is called exactly once for every acquired scratch file, on
\* each exit path (rename succeeded, write failed, rename failed), never
\* before and never without one; when its close and unlink did not fail, the
\* scratch file is gone once it has finished.
C15_CleanupExactlyOnce ==
  \A c \in Calls :
    /\ cleanups[c] <= 1
    /\ (Renamed(c) \/ failedAt[c] \in {"write", "rename"}) => cleanups[c] = 1
    /\ cleanups[c] = 1 => (Acquired(c) /\ pc[c] \in {"closing", "unlinking", "done"})
    /\ (Acquired(c) /\ pc[c] = "done" /\ CleanupUnfaulted(c))
         => (cleanups[c] = 1 /\ ~existsSync(competitivePath[c]))

\* C15 witness: one call failed at its payload write, the other at its
\* rename; both have finished after one cleanup each.
C15_Witness ==
  \E c \in Calls, b \in Calls :
    /\ failedAt[c] = "write"
    /\ failedAt[b] = "rename"
    /\ pc[c] = "done" /\ pc[b] = "done"
    /\ cleanups[c] = 1 /\ cleanups[b] = 1
    /\ DOMAIN scratch = stale

\* C16: the steps of a call run one after the other: the rename is in flight
\* only when the payload write has completed and the directory creation is
\* no longer in flight; cleanup is in flight only after the rename finished
\* or an earlier step failed, and with no directory creation in flight.
C16_SequentialChain ==
  \A c \in Calls :
    /\ pc[c] = "renaming" =>
         (scratch[competitivePath[c]] = data[c] /\ mkdirDest[c] # "pending")
    /\ pc[c] \in {"closing", "unlinking"} =>
         ((Renamed(c) \/ failedAt[c] # "none") /\ mkdirDest[c] # "pending")

\* C17: a failure of fd.close() or fs.unlink() during cleanup is swallowed:
\* it never becomes a rejection that nothing handles.
C17_CleanupFailureSwallowed ==
  unhandled \cap (Calls \X {"close", "unlink"}) = {}

\* C18: with k scratch names taken at the start, a call makes at most k+1
\* exclusive-create attempts; an attempt can always complete, and the
\* (k+1)-th does not collide.
C18_AtMostKPlusOneAttempts ==
  \A c \in Calls :
    /\ attempts[c] <= Cardinality(stale) + 1
    /\ (pc[c] = "opening" /\ ~crashed) => ENABLED (OpenOk(c) \/ OpenExist(c))
    /\ (pc[c] = "opening" /\ attempts[c] = Cardinality(stale) + 1)
         => ~existsSync(competitivePath[c])

\* C18 witness: every name taken at the start collided with the same call,
\* which acquired its scratch file at attempt k+1, with no fault.
C18_Witness ==
  \E c \in Calls :
    /\ stale # {}
    /\ attempts[c] = Cardinality(stale) + 1
    /\ Acquired(c)
    /\ faults = {}

\* C19: the caller awaited the first call before making the second, for the
\* same destination; with no fault, once both are finished and both renames
\* were made, the destination holds the payload of the second call.
C19_SecondAwaitedWriteWins ==
  (/\ pc[1] = "done" /\ pc[2] = "done"
   /\ path[1] = path[2]
   /\ Renamed(1) /\ Renamed(2)
   /\ faults = {})
    => files[path[2]] = data[2]

\* C20: a step of a call's cleanup (close, unlink) leaves every destination
\* file as it is, creates or rewrites no scratch file and removes at most
\* the scratch path of its own call; after a successful rename it removes
\* nothing.
C20_CleanupDeletesOnlyOwn ==
  [][\A c \in Calls :
       (pc[c] \in {"closing", "unlinking"} /\ pc'[c] # pc[c]) =>
         /\ files' = files
         /\ DOMAIN scratch \ {competitivePath[c]} \subseteq DOMAIN scratch'
         /\ \A n \in DOMAIN scratch' :
              n \in DOMAIN scratch /\ scratch'[n] = scratch[n]
         /\ Renamed(c) => scratch' = scratch]_vars

\* C20 witness: a call has removed its own scratch file after a failed
\* rename while the other call's scratch file, with part of its payload, and
\* a destination file are still there.
C20_Witness ==
  \E c \in Calls, b \in Calls :
    /\ failedAt[c] = "rename"
    /\ pc[c] = "done"
    /\ ~existsSync(competitivePath[c])
    /\ pc[b] = "writing"
    /\ existsSync(competitivePath[b])
    /\ scratch[competitivePath[b]] # <<>>
    /\ DOMAIN files # {}
====
